---- MODULE Spec2Model ----
(***************************************************************************)
(* Pantry ingestion (flat-file upload, remote-list sync), the record store *)
(* and the text + radius search of find-a-food-pantry.                     *)
(*                                                                         *)
(* Representation.  A text is a sequence of one-character strings, so that *)
(* substring, pattern and trimming operations are computed, not assumed.   *)
(* A JavaScript value is a tagged record: [t |-> "null"], [t |-> "str",    *)
(* s |-> text], [t |-> "num", n |-> integer].  A nullable column of the    *)
(* store holds a set with at most one element: {} is NULL.                 *)
(***************************************************************************)
EXTENDS Integers, Sequences, FiniteSets, TLC

VARIABLES
    pantries,   \* the pantries table, rows in insertion order
    settings,   \* the data_sync_settings row of the one sync configuration
    sync,       \* the running POST /api/admin/sharepoint/sync requests
    upload,     \* the running POST /api/admin/upload-csv requests
    lastRead,   \* the response of the last read request served
    remote,     \* the items of the remote list the configuration points at
    file,       \* the data rows of the file the administrators upload
    budget      \* how many more requests of each kind will be accepted

vars == <<pantries, settings, sync, upload, lastRead, remote, file, budget>>

(***************************************************************************)
(* Bounds of the model.                                                    *)
(***************************************************************************)
MaxRows == 2          \* data rows of an uploaded file
MaxItems == 2         \* items of the remote list
MaxRuns == 2          \* ingestion and admin requests accepted in one behaviour
MaxSearchRows == 2    \* rows of the store in the search specification
MaxQueryLen == 2      \* characters of a search query
MaxSearches == 2      \* searches of one store in the ordering specification
MaxReportItems == 11  \* rows or items of the input in the report specification
MaxTokens == 3        \* tokens of an address in the cleaning specification
PageSize == 12        \* items the remote service delivers in one response

(***************************************************************************)
(* Texts.                                                                  *)
(***************************************************************************)
Whitespace == {" ", "\t"}
Digits == {"0", "1", "2", "3", "4", "5", "6", "7", "8", "9"}

\* String.prototype.toLowerCase / the case folding of ILIKE, on the letters
\* the model uses in both cases.
LowerChar(c) ==
    CASE c = "A" -> "a"
      [] c = "B" -> "b"
      [] c = "F" -> "f"
      [] c = "H" -> "h"
      [] c = "I" -> "i"
      [] c = "W" -> "w"
      [] c = "P" -> "p"
      [] c = "N" -> "n"
      [] c = "J" -> "j"
      [] c = "U" -> "u"
      [] OTHER -> c

toLowerCase(s) == [i \in 1..Len(s) |-> LowerChar(s[i])]

Drop(s, n) == SubSeq(s, n + 1, Len(s))

RECURSIVE TrimLeft(_)
TrimLeft(s) ==
    IF s # <<>> /\ Head(s) \in Whitespace THEN TrimLeft(Tail(s)) ELSE s

RECURSIVE TrimRight(_)
TrimRight(s) ==
    IF s # <<>> /\ s[Len(s)] \in Whitespace
    THEN TrimRight(SubSeq(s, 1, Len(s) - 1))
    ELSE s

\* String.prototype.trim
trim(s) == TrimRight(TrimLeft(s))

\* s starts with the literal text lit
StartsWith(s, lit) == Len(s) >= Len(lit) /\ SubSeq(s, 1, Len(lit)) = lit

\* String.prototype.includes
includes(s, lit) == \E i \in 0..Len(s) : StartsWith(Drop(s, i), lit)

\* Texts over an alphabet, of length at most n.
RECURSIVE TextsUpTo(_, _)
TextsUpTo(alphabet, n) ==
    IF n = 0 THEN {<<>>}
    ELSE LET shorter == TextsUpTo(alphabet, n - 1)
         IN  shorter \cup {<<c>> \o t : c \in alphabet, t \in {u \in shorter : Len(u) = n - 1}}

(***************************************************************************)
(* JavaScript values.                                                      *)
(***************************************************************************)
Null == [t |-> "null"]
Undefined == [t |-> "undef"]
Str(s) == [t |-> "str", s |-> s]
Num(n) == [t |-> "num", n |-> n]
\* An object: its properties in insertion order, each <<key, value>>.
Obj(properties) == [t |-> "obj", p |-> properties]

\* value[key] of an object
Property(value, key) ==
    LET hits == SelectSeq(value.p, LAMBDA kv : kv[1] = key)
    IN  IF hits = <<>> THEN Undefined ELSE Head(hits)[2]

\* ToBoolean: undefined, null, '' and 0 are falsy.
Truthy(v) ==
    CASE v.t = "null" -> FALSE
      [] v.t = "undef" -> FALSE
      [] v.t = "str" -> v.s # <<>>
      [] v.t = "num" -> v.n # 0
      [] OTHER -> TRUE

\* a || b
Or(a, b) == IF Truthy(a) THEN a ELSE b

IsString(v) == v.t = "str"

(***************************************************************************)
(* The pantries table.                                                     *)
(***************************************************************************)
\* The literal of a decimal column: an optional sign and digits.  The store
\* raises on any other text (invalid input syntax for type numeric).
RECURSIVE DigitsValue(_)
DigitsValue(s) ==
    IF s = <<>> THEN 0
    ELSE 10 * DigitsValue(SubSeq(s, 1, Len(s) - 1))
         + (CHOOSE d \in 0..9 : ToString(d) = s[Len(s)])

IsDecimalText(s) ==
    LET body == IF s # <<>> /\ Head(s) = "-" THEN Tail(s) ELSE s
    IN  body # <<>> /\ \A i \in 1..Len(body) : body[i] \in Digits

DecimalOf(s) ==
    IF s # <<>> /\ Head(s) = "-" THEN 0 - DigitsValue(Tail(s)) ELSE DigitsValue(s)

\* decimal(10, 7): at most three digits before the point.
DecimalFits(n) == n > -1000 /\ n < 1000

\* A coordinate of an insert: NULL, or a text the column has to parse.
CoordinateThrows(v) ==
    v.t = "str" /\ (~IsDecimalText(v.s) \/ ~DecimalFits(DecimalOf(v.s)))

CoordinateColumn(v) == IF v.t = "str" THEN {DecimalOf(v.s)} ELSE {}

\* db.insert(pantries).values(pantryData) raises, and no row is written.
InsertThrows(data) == CoordinateThrows(data.latitude) \/ CoordinateThrows(data.longitude)

\* The optional varchar columns carried by the model.
OptionalTexts == {"phone", "email", "website", "accessType"}

\* A nullable text column: the text given, or NULL.
TextColumn(data, f) ==
    IF f \in DOMAIN data /\ data[f].t = "str" THEN {data[f].s} ELSE {}

\* The row db.insert(pantries).values(pantryData).returning() yields: a fresh
\* id, is_active defaulting to true.
NewRow(store, data) ==
    [id        |-> Len(store) + 1,
     name      |-> data.name.s,
     address   |-> data.address.s,
     city      |-> data.city.s,
     state     |-> data.state.s,
     zipCode   |-> data.zipCode.s,
     phone     |-> TextColumn(data, "phone"),
     email     |-> TextColumn(data, "email"),
     website   |-> TextColumn(data, "website"),
     accessType |-> TextColumn(data, "accessType"),
     latitude  |-> CoordinateColumn(data.latitude),
     longitude |-> CoordinateColumn(data.longitude),
     isActive  |-> IF "isActive" \in DOMAIN data THEN data.isActive ELSE TRUE]

\* createPantry as an upsert by name: a row of that name is replaced.
createPantryMerging(store, data) ==
    IF \E i \in 1..Len(store) : store[i].name = data.name.s
    THEN [i \in 1..Len(store) |->
             IF store[i].name = data.name.s
             THEN [NewRow(store, data) EXCEPT !.id = store[i].id]
             ELSE store[i]]
    ELSE Append(store, NewRow(store, data))

\* createPantry skipping a record the store already holds under another id.
createPantryDeduplicating(store, data) ==
    IF \E i \in 1..Len(store) : [store[i] EXCEPT !.id = 0] = [NewRow(store, data) EXCEPT !.id = 0]
    THEN store
    ELSE Append(store, NewRow(store, data))

createPantry(store, data) == Append(store, NewRow(store, data))

\* insertPantrySchema.parse: the five NOT NULL text columns are strings, a
\* coordinate is a string or null.  It has no minimum length and no range.
SchemaAccepts(data) ==
    /\ \A f \in {"name", "address", "city", "state", "zipCode"} : IsString(data[f])
    /\ \A f \in {"latitude", "longitude"} : data[f].t \in {"str", "null"}
    /\ \A f \in OptionalTexts \cap DOMAIN data : data[f].t \in {"str", "null", "undef"}

getPantries(store) == SelectSeq(store, LAMBDA p : p.isActive)

getPantry(store, id) == SelectSeq(store, LAMBDA p : p.id = id)

updatePantry(store, id, data) ==
    [i \in 1..Len(store) |->
        IF store[i].id = id
        THEN [f \in DOMAIN store[i] |->
                 IF f \in DOMAIN data THEN data[f] ELSE store[i][f]]
        ELSE store[i]]

deletePantry(store, id) ==
    [i \in 1..Len(store) |->
        IF store[i].id = id THEN [store[i] EXCEPT !.isActive = FALSE] ELSE store[i]]

deleteAllPantries(store) ==
    [i \in 1..Len(store) |-> [store[i] EXCEPT !.isActive = FALSE]]

(***************************************************************************)
(* Search.                                                                 *)
(***************************************************************************)
\* PostgreSQL's s LIKE p on folded texts: % is any run of characters, _ is
\* any one character, every other character is itself.  (The escape
\* character, backslash, is not in the model's alphabet.)
RECURSIVE Like(_, _)
Like(s, p) ==
    IF p = <<>> THEN s = <<>>
    ELSE IF Head(p) = "%" THEN \E k \in 0..Len(s) : Like(Drop(s, k), Tail(p))
    ELSE IF s = <<>> THEN FALSE
    ELSE IF Head(p) = "_" THEN Like(Tail(s), Tail(p))
    ELSE Head(s) = Head(p) /\ Like(Tail(s), Tail(p))

\* column ILIKE pattern
ILike(s, p) == Like(toLowerCase(s), toLowerCase(p))

\* `%${query.trim()}%`
searchTerm(query) == <<"%">> \o trim(query) \o <<"%">>

SearchedColumns == {"name", "address", "city", "state", "zipCode"}

\* if (query && query.trim())
TextRequested(query) == query # <<>> /\ trim(query) # <<>>

TextCondition(p, query) ==
    \E f \in SearchedColumns : ILike(p[f], searchTerm(query))

\* 6371 * acos(cos(radians(a)) * cos(radians(b)) * cos(radians(dlon)) +
\* sin(radians(a)) * sin(radians(b))) in metres, rounded, for the latitudes
\* 0, 40, 41 and the longitudes 0, -74, -75 of the model: the formula's
\* value in double precision (its acos argument stays within [-1, 1] there).
Abs(n) == IF n < 0 THEN 0 - n ELSE n

GreatCircleMetres(a, b, dlon) ==
    LET lo == IF a < b THEN a ELSE b
        hi == IF a < b THEN b ELSE a
    IN  CASE lo = 0 /\ hi = 0 ->
               (CASE dlon = 0 -> 0 [] dlon = 1 -> 111195
                  [] dlon = 74 -> 8228425 [] dlon = 75 -> 8339619)
          [] lo = 0 /\ hi = 40 ->
               (CASE dlon = 0 -> 4447797 [] dlon = 1 -> 4448953
                  [] dlon = 74 -> 8652102 [] dlon = 75 -> 8735959)
          [] lo = 0 /\ hi = 41 ->
               (CASE dlon = 0 -> 4558992 [] dlon = 1 -> 4560108
                  [] dlon = 74 -> 8672459 [] dlon = 75 -> 8755023)
          [] lo = 40 /\ hi = 40 ->
               (CASE dlon = 0 -> 0 [] dlon = 1 -> 85180
                  [] dlon = 74 -> 6105214 [] dlon = 75 -> 6181742)
          [] lo = 40 /\ hi = 41 ->
               (CASE dlon = 0 -> 111195 [] dlon = 1 -> 139689
                  [] dlon = 74 -> 6057298 [] dlon = 75 -> 6133094)
          [] lo = 41 /\ hi = 41 ->
               (CASE dlon = 0 -> 0 [] dlon = 1 -> 83919
                  [] dlon = 74 -> 6007459 [] dlon = 75 -> 6082552)

distanceFormula(latitude, longitude, pLatitude, pLongitude) ==
    GreatCircleMetres(latitude, pLatitude, Abs(pLongitude - longitude))

\* radius * 1.60934, in units of 10^-5 km
radiusInKm(radius) == radius * 160934

\* An optional number of the call: {} is undefined.
Given(x) == x # {}
ValueOf(x) == CHOOSE v \in x : TRUE

\* ToBoolean of an optional number: undefined and 0 are falsy.
TruthyNumber(x) == Given(x) /\ ValueOf(x) # 0

\* if (latitude && longitude && radius)
GeoRequested(latitude, longitude, radius) ==
    TruthyNumber(latitude) /\ TruthyNumber(longitude) /\ TruthyNumber(radius)

\* latitude IS NOT NULL AND longitude IS NOT NULL AND distance <= radiusInKm
\* (a NULL coordinate makes the comparison NULL, which WHERE treats as false)
GeoCondition(p, latitude, longitude, radius) ==
    /\ p.latitude # {}
    /\ p.longitude # {}
    /\ distanceFormula(ValueOf(latitude), ValueOf(longitude),
                       ValueOf(p.latitude), ValueOf(p.longitude)) * 100
         <= radiusInKm(ValueOf(radius))

\* searchPantries with the two filters, when both are requested, ORed.
searchPantriesEither(store, query, latitude, longitude, radius) ==
    SelectSeq(store, LAMBDA p :
        /\ p.isActive
        /\ IF TextRequested(query) /\ GeoRequested(latitude, longitude, radius)
           THEN TextCondition(p, query) \/ GeoCondition(p, latitude, longitude, radius)
           ELSE /\ TextRequested(query) => TextCondition(p, query)
                /\ GeoRequested(latitude, longitude, radius)
                     => GeoCondition(p, latitude, longitude, radius))

searchPantries(store, query, latitude, longitude, radius) ==
    SelectSeq(store, LAMBDA p :
        /\ p.isActive
        /\ TextRequested(query) => TextCondition(p, query)
        /\ GeoRequested(latitude, longitude, radius)
             => GeoCondition(p, latitude, longitude, radius))

\* The ids of the rows of a response.
Ids(rows) == {rows[i].id : i \in 1..Len(rows)}

(***************************************************************************)
(* cleanHtmlAndWordPress.                                                  *)
(***************************************************************************)
\* The index of the first c in s, 0 when there is none.
FirstIndex(s, c) ==
    IF \E i \in 1..Len(s) : s[i] = c
    THEN CHOOSE i \in 1..Len(s) : s[i] = c /\ \A j \in 1..(i - 1) : s[j] # c
    ELSE 0

\* s.replace(/lit/g, rep) for a literal lit
RECURSIVE ReplaceLiteral(_, _, _)
ReplaceLiteral(s, lit, rep) ==
    IF s = <<>> THEN <<>>
    ELSE IF StartsWith(s, lit) THEN rep \o ReplaceLiteral(Drop(s, Len(lit)), lit, rep)
    ELSE <<Head(s)>> \o ReplaceLiteral(Tail(s), lit, rep)

\* The length of the match of /<!--\s*\/?wp:[^>]*-->/ at the start of s, 0
\* when it does not match there: [^>]* stops before the first '>', which
\* has to close a "--" that follows "wp:".
WpCommentLength(s) ==
    IF ~StartsWith(s, <<"<", "!", "-", "-">>) THEN 0
    ELSE LET a == TrimLeft(Drop(s, 4))
             b == IF StartsWith(a, <<"/">>) THEN Tail(a) ELSE a
         IN  IF ~StartsWith(b, <<"w", "p", ":">>) THEN 0
             ELSE LET c == Drop(b, 3)
                      k == FirstIndex(c, ">")
                  IN  IF k >= 3 /\ c[k - 1] = "-" /\ c[k - 2] = "-"
                      THEN (Len(s) - Len(c)) + k
                      ELSE 0

\* .replace(/<!--\s*\/?wp:[^>]*-->/g, '')
RECURSIVE StripWpComments(_)
StripWpComments(s) ==
    IF s = <<>> THEN <<>>
    ELSE IF WpCommentLength(s) > 0 THEN StripWpComments(Drop(s, WpCommentLength(s)))
    ELSE <<Head(s)>> \o StripWpComments(Tail(s))

\* .replace(/<[^>]*>/g, ''): a '<' up to the first '>' after it
RECURSIVE StripTags(_)
StripTags(s) ==
    IF s = <<>> THEN <<>>
    ELSE IF Head(s) = "<" /\ FirstIndex(s, ">") > 0
         THEN StripTags(Drop(s, FirstIndex(s, ">")))
    ELSE <<Head(s)>> \o StripTags(Tail(s))

\* The six entity replacements, in the order of the code.
DecodeEntities(s) ==
    LET s1 == ReplaceLiteral(s, <<"&", "n", "b", "s", "p", ";">>, <<" ">>)
        s2 == ReplaceLiteral(s1, <<"&", "a", "m", "p", ";">>, <<"&">>)
        s3 == ReplaceLiteral(s2, <<"&", "l", "t", ";">>, <<"<">>)
        s4 == ReplaceLiteral(s3, <<"&", "g", "t", ";">>, <<">">>)
        s5 == ReplaceLiteral(s4, <<"&", "q", "u", "o", "t", ";">>, <<"\"">>)
    IN  ReplaceLiteral(s5, <<"&", "#", "3", "9", ";">>, <<"'">>)

\* CollapseWhitespace with the whitespace removed, not replaced by a space.
RemoveWhitespace(s) == SelectSeq(s, LAMBDA c : c \notin Whitespace)

\* .replace(/\s+/g, ' ')
RECURSIVE CollapseWhitespace(_)
CollapseWhitespace(s) ==
    IF s = <<>> THEN <<>>
    ELSE IF Head(s) \in Whitespace THEN <<" ">> \o CollapseWhitespace(TrimLeft(s))
    ELSE <<Head(s)>> \o CollapseWhitespace(Tail(s))

\* On a text; the empty text is returned as it is (!text).
cleanHtmlAndWordPress(text) ==
    IF text = <<>> THEN text
    ELSE trim(CollapseWhitespace(DecodeEntities(StripTags(StripWpComments(text)))))

(***************************************************************************)
(* POST /api/admin/upload-csv.                                             *)
(*                                                                         *)
(* A parsed row maps the headers of the file to texts; a header the file   *)
(* does not have is undefined.  An upload request is                       *)
(*   pc         "idle", "loop" (in the validation loop), "done"            *)
(*   pantries   the candidates the row mapping produced                    *)
(*   index, successCount, errorCount, errors   as in the code              *)
(*   log        per loop iteration, the id of the row created or 0         *)
(*   status     the HTTP status of the response, 0 before it               *)
(*   response   the body of a 200 response, none before it                 *)
(***************************************************************************)
WpslId == <<"w", "p", "s", "l", "_", "i", "d">>
FoodPantry == <<"f", "o", "o", "d", " ", "p", "a", "n", "t", "r", "y">>
DefaultState == <<"P", "A">>
DefaultCity == <<"U", "n", "k", "n", "o", "w", "n">>

Col(row, header) == IF header \in DOMAIN row THEN Str(row[header]) ELSE Undefined

\* a || b || ... || z
RECURSIVE OrChain(_)
OrChain(values) ==
    IF Len(values) = 1 \/ Truthy(Head(values)) THEN Head(values)
    ELSE OrChain(Tail(values))

\* The 'data' handler of the parser: the rows kept in results.
KeptByParser(row) ==
    LET name == Col(row, "name")
    IN  /\ Truthy(name)
        /\ trim(name.s) # <<>>
        /\ ~includes(name.s, WpslId)

CleanOrEmpty(v) == IF Truthy(v) THEN cleanHtmlAndWordPress(v.s) ELSE <<>>

getName(row) ==
    CleanOrEmpty(OrChain(<<Col(row, "name"), Col(row, "Name"), Col(row, "pantry_name"),
                           Col(row, "Pantry Name"), Str(<<>>)>>))

getAddress(row) ==
    CleanOrEmpty(OrChain(<<Col(row, "address"), Col(row, "Address"),
                           Col(row, "street_address"), Col(row, "Street Address"),
                           Str(<<>>)>>))

getCity(row) == CleanOrEmpty(OrChain(<<Col(row, "city"), Col(row, "City"), Str(<<>>)>>))

getState(row) ==
    CleanOrEmpty(OrChain(<<Col(row, "state"), Col(row, "State"), Col(row, "st"),
                           Col(row, "ST"), Str(<<>>)>>))

getZip(row) ==
    OrChain(<<Col(row, "zip"), Col(row, "zipcode"), Col(row, "zip_code"),
              Col(row, "Zip Code"), Col(row, "postal_code"), Str(<<>>)>>)

IsDigitsOnly(s) == s # <<>> /\ \A i \in 1..Len(s) : s[i] \in Digits

getPhone(row) ==
    OrChain(<<Col(row, "phone"), Col(row, "Phone"), Col(row, "telephone"),
              Col(row, "Phone Number"), Null>>)

getEmail(row) ==
    OrChain(<<Col(row, "email"), Col(row, "Email"), Col(row, "Email Address"), Null>>)

WalkIn == <<"w", "a", "l", "k", "-", "i", "n">>
Appointment == <<"a", "p", "p", "o", "i", "n", "t", "m", "e", "n", "t">>
Mobile == <<"m", "o", "b", "i", "l", "e">>

getAccessType(row) ==
    LET access == OrChain(<<Col(row, "access_type"), Col(row, "Access Type"),
                            Col(row, "access"), Str(<<>>)>>)
        has(word) == Truthy(access) /\ includes(toLowerCase(access.s), word)
    IN  IF has(<<"w", "a", "l", "k">>) THEN Str(WalkIn)
        ELSE IF has(Appointment) THEN Str(Appointment)
        ELSE IF has(Mobile) THEN Str(Mobile)
        ELSE Null

\* The row is header-like, empty or invalid: results.map returns null.
SkippedByMapping(row) ==
    LET name == getName(row)
    IN  \/ name = <<>>
        \/ includes(toLowerCase(name), WpslId)
        \/ includes(toLowerCase(name), FoodPantry)
        \/ Len(trim(name)) < 3
        \/ IsDigitsOnly(trim(name))

\* The object results.map returns for a row it keeps.
MappedRow(row) ==
    [name      |-> Str(getName(row)),
     address   |-> Str(getAddress(row)),
     city      |-> Str(getCity(row)),
     state     |-> Str(getState(row)),
     zipCode   |-> getZip(row),
     phone     |-> getPhone(row),
     email     |-> getEmail(row),
     accessType |-> getAccessType(row),
     latitude  |-> OrChain(<<Col(row, "lat"), Col(row, "latitude"), Null>>),
     longitude |-> OrChain(<<Col(row, "lng"), Col(row, "longitude"), Col(row, "lon"), Null>>)]

\* results: the rows the parser's 'data' handler pushed
ParsedRows(rows) == SelectSeq(rows, KeptByParser)

\* MapRows with the candidates in the reverse of the order of their rows.
RECURSIVE MapRowsReversed(_)
MapRowsReversed(results) ==
    IF results = <<>> THEN <<>>
    ELSE IF SkippedByMapping(Head(results)) THEN MapRowsReversed(Tail(results))
    ELSE MapRowsReversed(Tail(results)) \o <<MappedRow(Head(results))>>

\* results.map(...).filter(pantry => pantry !== null)
RECURSIVE MapRows(_)
MapRows(results) ==
    IF results = <<>> THEN <<>>
    ELSE IF SkippedByMapping(Head(results)) THEN MapRows(Tail(results))
    ELSE <<MappedRow(Head(results))>> \o MapRows(Tail(results))

\* if (!pantryData.name || (!pantryData.address && !pantryData.city))
MissingRequired(pantryData) ==
    \/ ~Truthy(pantryData.name)
    \/ (~Truthy(pantryData.address) /\ ~Truthy(pantryData.city))

\* The defaults the loop fills in before it validates.
WithDefaults(pantryData) ==
    LET withState == IF ~Truthy(pantryData.state)
                     THEN [pantryData EXCEPT !.state = Str(DefaultState)]
                     ELSE pantryData
    IN  IF ~Truthy(withState.city) /\ Truthy(withState.address)
        THEN [withState EXCEPT !.city = Str(DefaultCity)]
        ELSE withState

UploadIdle ==
    [pc |-> "idle", pantries |-> <<>>, index |-> 0, successCount |-> 0,
     errorCount |-> 0, errors |-> <<>>, log |-> <<>>, status |-> 0, response |-> {}]

\* Rows of uploaded files.
Hope == <<"H", "o", "p", "e">>
Main == <<"1", " ", "M", "a", "i", "n">>
Erie == <<"E", "r", "i", "e">>
NJ == <<"N", "J">>

RowComplete ==
    [name |-> Hope, address |-> Main, city |-> Erie, state |-> NJ,
     zip |-> <<"1", "8">>, lat |-> <<"4", "0">>, lng |-> <<"-", "7", "5">>]
RowAddressOnly ==
    [name |-> <<"<", "b", ">">> \o Hope, address |-> Main, city |-> <<>>, state |-> <<>>,
     zip |-> <<>>, lat |-> <<>>, lng |-> <<>>]
RowNoLocation ==
    [name |-> Hope, address |-> <<>>, city |-> <<>>, state |-> NJ,
     zip |-> <<>>, lat |-> <<>>, lng |-> <<>>]
RowBadLatitude ==
    [name |-> Hope, address |-> Main, city |-> Erie, state |-> <<>>,
     zip |-> <<>>, lat |-> <<"n", "a">>, lng |-> <<>>]
RowNoName ==
    [name |-> <<>>, address |-> Main, city |-> Erie, state |-> NJ,
     zip |-> <<>>, lat |-> <<>>, lng |-> <<>>]
RowDigitsName ==
    [name |-> <<"1", "2", "3">>, address |-> Main, city |-> Erie, state |-> NJ,
     zip |-> <<>>, lat |-> <<>>, lng |-> <<>>]

RowSamples ==
    {RowComplete, RowAddressOnly, RowNoLocation, RowBadLatitude, RowNoName, RowDigitsName}

\* Sequences over a set, of length 1..n.
RECURSIVE SeqsUpTo(_, _)
SeqsUpTo(S, n) ==
    IF n = 0 THEN {<<>>}
    ELSE LET shorter == SeqsUpTo(S, n - 1)
         IN  shorter \cup {Append(q, x) : q \in {r \in shorter : Len(r) = n - 1}, x \in S}

Files == SeqsUpTo(RowSamples, MaxRows)

Uploaders == 1..MaxRuns

\* Lines 753-856: the file is parsed and its rows are mapped; an empty
\* result is answered 400.
UploadReceive(u) ==
    /\ upload[u].pc = "idle"
    /\ budget.upload > 0
    /\ \A v \in Uploaders : v < u => upload[v].pc # "idle"
    /\ LET results == ParsedRows(file)
       IN  upload' = [upload EXCEPT ![u] =
               IF results = <<>>
               THEN [@ EXCEPT !.pc = "done", !.status = 400]
               ELSE [@ EXCEPT !.pc = "loop", !.pantries = MapRows(results)]]
    /\ budget' = [budget EXCEPT !.upload = @ - 1]
    /\ UNCHANGED <<pantries, settings, sync, lastRead, remote, file>>

\* UploadRow with a failing candidate ending the loop (no try around the
\* iteration).
UploadRowAborting(u) ==
    LET r == upload[u]
        pantryData == r.pantries[r.index + 1]
        validatedData == WithDefaults(pantryData)
    IN  /\ r.pc = "loop"
        /\ r.index < Len(r.pantries)
        /\ IF MissingRequired(pantryData) \/ ~SchemaAccepts(validatedData)
              \/ InsertThrows(validatedData)
           THEN /\ upload' = [upload EXCEPT ![u] =
                      [@ EXCEPT !.index = Len(r.pantries), !.errorCount = @ + 1,
                                !.errors = Append(@, [row |-> r.index + 2, kind |-> "invalid"]),
                                !.log = Append(@, 0)]]
                /\ UNCHANGED pantries
           ELSE /\ pantries' = createPantry(pantries, validatedData)
                /\ upload' = [upload EXCEPT ![u] =
                      [@ EXCEPT !.index = @ + 1, !.successCount = @ + 1,
                                !.log = Append(@, Len(pantries) + 1)]]
        /\ UNCHANGED <<settings, sync, lastRead, budget, remote, file>>

\* Lines 858-885: one iteration of the validation loop.
UploadRow(u) ==
    LET r == upload[u]
        pantryData == r.pantries[r.index + 1]
        validatedData == WithDefaults(pantryData)
        rowNumber == r.index + 2
    IN  /\ r.pc = "loop"
        /\ r.index < Len(r.pantries)
        /\ IF MissingRequired(pantryData)
           THEN /\ upload' = [upload EXCEPT ![u] =
                      [@ EXCEPT !.index = @ + 1, !.errorCount = @ + 1,
                                !.errors = Append(@, [row |-> rowNumber, kind |-> "missing"]),
                                !.log = Append(@, 0)]]
                /\ UNCHANGED pantries
           ELSE IF ~SchemaAccepts(validatedData) \/ InsertThrows(validatedData)
           THEN /\ upload' = [upload EXCEPT ![u] =
                      [@ EXCEPT !.index = @ + 1, !.errorCount = @ + 1,
                                !.errors = Append(@, [row |-> rowNumber, kind |-> "invalid"]),
                                !.log = Append(@, 0)]]
                /\ UNCHANGED pantries
           ELSE /\ pantries' = createPantry(pantries, validatedData)
                /\ upload' = [upload EXCEPT ![u] =
                      [@ EXCEPT !.index = @ + 1, !.successCount = @ + 1,
                                !.log = Append(@, Len(pantries) + 1)]]
        /\ UNCHANGED <<settings, sync, lastRead, budget, remote, file>>

\* errors.slice(0, 10)
ErrorsReturned == 10
slice(errors, n) == SubSeq(errors, 1, IF Len(errors) < n THEN Len(errors) ELSE n)

\* Lines 887-892: the report.
UploadRespond(u) ==
    /\ upload[u].pc = "loop"
    /\ upload[u].index = Len(upload[u].pantries)
    /\ upload' = [upload EXCEPT ![u] =
          [@ EXCEPT !.pc = "done", !.status = 200,
                    !.response = {[successCount |-> upload[u].successCount,
                                   errorCount |-> upload[u].errorCount,
                                   errors |-> slice(upload[u].errors, ErrorsReturned)]}]]
    /\ UNCHANGED <<pantries, settings, sync, lastRead, budget, remote, file>>

(***************************************************************************)
(* SharePointService: validateMapping and syncListData.                    *)
(*                                                                         *)
(* A column mapping maps pantry fields to column names of the remote list  *)
(* ("" or no entry: unmapped).  A remote call ends "ok", or throws:        *)
(* "auth" in getAccessToken, "http" when the response is not ok.           *)
(***************************************************************************)
RemoteOutcomes == {"ok", "auth", "http"}

\* The columns of the remote list (getListColumns, col.name).
ListColumns == {"Title", "Addr", "City", "State", "Zip", "Lat", "Lng"}

requiredFields == <<"name", "address", "city", "state", "zipCode">>

MappedColumn(mapping, field) == IF field \in DOMAIN mapping THEN mapping[field] ELSE ""

\* The entries the loop over requiredFields pushes.
RECURSIVE MappingErrors(_, _, _)
MappingErrors(mapping, availableColumns, fields) ==
    IF fields = <<>> THEN <<>>
    ELSE LET field == Head(fields)
             mappedColumn == MappedColumn(mapping, field)
             rest == MappingErrors(mapping, availableColumns, Tail(fields))
         IN  IF mappedColumn = ""
             THEN <<[kind |-> "not mapped", field |-> field]>> \o rest
             ELSE IF mappedColumn \notin availableColumns
             THEN <<[kind |-> "does not exist", field |-> field, column |-> mappedColumn]>> \o rest
             ELSE rest

\* validateMapping: catalog is the outcome of getListColumns.
validateMapping(mapping, catalog) ==
    LET errors == IF catalog = "ok"
                  THEN MappingErrors(mapping, ListColumns, requiredFields)
                  ELSE <<[kind |-> "Failed to validate mapping", cause |-> catalog]>>
    IN  [valid |-> errors = <<>>, errors |-> errors]

UnknownPantry ==
    <<"U", "n", "k", "n", "o", "w", "n", " ", "P", "a", "n", "t", "r", "y">>

\* String(n) of a natural number
RECURSIVE NumberText(_)
NumberText(n) ==
    IF n < 10 THEN <<ToString(n)>> ELSE NumberText(n \div 10) \o <<ToString(n % 10)>>

ObjectObject ==
    <<"[", "o", "b", "j", "e", "c", "t", " ", "O", "b", "j", "e", "c", "t", "]">>

\* String(value) of a string, a number or an object
StringOf(v) ==
    IF v.t = "num" THEN NumberText(v.n)
    ELSE IF v.t = "obj" THEN ObjectObject
    ELSE v.s

\* JSON.stringify(value) of a string, a number, null or an object of these.
RECURSIVE JsonText(_)
RECURSIVE JsonProperties(_)
JsonProperties(properties) ==
    IF properties = <<>> THEN <<>>
    ELSE LET kv == Head(properties)
             rest == JsonProperties(Tail(properties))
         IN  <<"\"">> \o kv[1] \o <<"\"", ":">> \o JsonText(kv[2])
             \o (IF Tail(properties) = <<>> THEN <<>> ELSE <<",">>) \o rest
JsonText(v) ==
    CASE v.t = "str" -> <<"\"">> \o v.s \o <<"\"">>
      [] v.t = "num" -> NumberText(v.n)
      [] v.t = "obj" -> <<"{">> \o JsonProperties(v.p) \o <<"}">>
      [] OTHER -> <<"n", "u", "l", "l">>

\* The sub-keys toStringOrNull looks for, in its order.
UnwrapKeys ==
    <<(<<"U", "r", "l">>), (<<"u", "r", "l">>), (<<"U", "R", "L">>),
      (<<"D", "e", "s", "c", "r", "i", "p", "t", "i", "o", "n">>),
      (<<"d", "e", "s", "c", "r", "i", "p", "t", "i", "o", "n">>)>>

IsEmptyValue(v) == v.t \in {"null", "undef"} \/ (v.t = "str" /\ v.s = <<>>)

getFieldValue(fields, mapping, pantryField) ==
    LET sharepointField == MappedColumn(mapping, pantryField)
        value == IF sharepointField \in DOMAIN fields THEN fields[sharepointField]
                 ELSE Undefined
    IN  IF sharepointField = "" THEN Null
        ELSE IF IsEmptyValue(value) THEN Null
        ELSE IF value.t = "str" THEN Str(trim(value.s))
        ELSE value

toStringOrEmpty(value) == IF IsEmptyValue(value) THEN Str(<<>>) ELSE Str(StringOf(value))

toStringOrNull(value) ==
    IF IsEmptyValue(value) THEN Null
    ELSE IF value.t = "obj"
    THEN LET found == SelectSeq(UnwrapKeys, LAMBDA k : Truthy(Property(value, k)))
         IN  IF found # <<>> THEN Str(StringOf(Property(value, Head(found))))
             ELSE Str(JsonText(value))
    ELSE Str(StringOf(value))

\* The InsertPantry items.map builds for one item.
MappedItem(fields, mapping) ==
    [name      |-> Or(getFieldValue(fields, mapping, "name"), Str(UnknownPantry)),
     address   |-> Or(getFieldValue(fields, mapping, "address"), Str(<<>>)),
     city      |-> Or(getFieldValue(fields, mapping, "city"), Str(<<>>)),
     state     |-> Or(getFieldValue(fields, mapping, "state"), Str(<<>>)),
     zipCode   |-> toStringOrEmpty(getFieldValue(fields, mapping, "zipCode")),
     phone     |-> toStringOrNull(getFieldValue(fields, mapping, "phone")),
     email     |-> getFieldValue(fields, mapping, "email"),
     website   |-> toStringOrNull(getFieldValue(fields, mapping, "website")),
     accessType |-> getFieldValue(fields, mapping, "accessType"),
     latitude  |-> toStringOrNull(getFieldValue(fields, mapping, "latitude")),
     longitude |-> toStringOrNull(getFieldValue(fields, mapping, "longitude")),
     isActive  |-> TRUE]

\* pantries.filter(pantry => pantry.name && pantry.name !== 'Unknown Pantry')
KeptBySync(pantry) == Truthy(pantry.name) /\ pantry.name # Str(UnknownPantry)

\* syncListData on the items the list fetch returned.
syncListData(items, mapping) ==
    SelectSeq([i \in 1..Len(items) |-> MappedItem(items[i], mapping)], KeptBySync)

\* data.value of the response to the one GET of the list's items: the first
\* page of the list (the rest is behind the response's next link).
FirstPage(list) == SubSeq(list, 1, IF Len(list) < PageSize THEN Len(list) ELSE PageSize)

\* Column mappings of the configuration.
MappingComplete ==
    [name |-> "Title", address |-> "Addr", city |-> "City", state |-> "State",
     zipCode |-> "Zip", latitude |-> "Lat", longitude |-> "Lng"]
MappingWithoutState == [MappingComplete EXCEPT !.state = ""]
MappingUnknownColumn == [MappingComplete EXCEPT !.city = "Town"]

Mappings == {MappingComplete, MappingWithoutState, MappingUnknownColumn}

\* Items of the remote list: the fields of each.
ItemComplete ==
    [Title |-> Str(Hope), Addr |-> Str(Main), City |-> Str(Erie), State |-> Str(NJ),
     Zip |-> Num(18), Lat |-> Num(40), Lng |-> Str(<<"-", "7", "5">>)]
ItemNoState ==
    [Title |-> Str(Hope), Addr |-> Str(Main), City |-> Str(Erie), State |-> Str(<<" ">>),
     Zip |-> Str(<<"1", "8">>)]
ItemNoTitle == [Title |-> Null, Addr |-> Str(Main), City |-> Str(Erie), State |-> Str(NJ)]
ItemNumericTitle ==
    [Title |-> Num(7), Addr |-> Str(Main), City |-> Str(Erie), State |-> Str(NJ)]

ItemSamples == {ItemComplete, ItemNoState, ItemNoTitle, ItemNumericTitle}

RemoteLists == SeqsUpTo(ItemSamples, MaxItems)

(***************************************************************************)
(* POST /api/admin/sharepoint/sync.                                        *)
(*                                                                         *)
(* A sync request is                                                       *)
(*   pc          "idle", "marking", "validating", "invalid", "fetching",   *)
(*               "failed", "loop", "done": where the handler is suspended  *)
(*   validation  the result of validateMapping                             *)
(*   pantries, imported, errors   as in the code; index is the position of *)
(*               the for-of loop                                           *)
(*   syncError   the exception the inner catch holds                       *)
(*   wrote       the syncStatus values the request has written (history)   *)
(*   log         per loop iteration, the id of the row created or 0        *)
(*   status      the HTTP status of the response, 0 before it              *)
(*   response    the body of a 200 response, none before it                *)
(***************************************************************************)
Syncers == 1..MaxRuns

SettingsId == "cfg"
RequestedIds == {SettingsId, "", "unknown"}

SyncIdle ==
    [pc |-> "idle", validation |-> [valid |-> TRUE, errors |-> <<>>], pantries |-> <<>>,
     index |-> 0, imported |-> 0, errors |-> <<>>, syncError |-> "", wrote |-> <<>>,
     log |-> <<>>, status |-> 0, response |-> {}]

\* updateDataSyncSettings(settingsId, data) on the row
updateDataSyncSettings(row, data) ==
    [f \in DOMAIN row |-> IF f \in DOMAIN data THEN data[f] ELSE row[f]]

\* Lines 961-974: the request is read and the configuration looked up.
SyncStart(p) ==
    /\ sync[p].pc = "idle"
    /\ budget.sync > 0
    /\ \A q \in Syncers : q < p => sync[q].pc # "idle"
    /\ \E settingsId \in RequestedIds :
          sync' = [sync EXCEPT ![p] =
              IF settingsId = "" THEN [@ EXCEPT !.pc = "done", !.status = 400]
              ELSE IF settingsId # SettingsId THEN [@ EXCEPT !.pc = "done", !.status = 404]
              ELSE [@ EXCEPT !.pc = "marking"]]
    /\ budget' = [budget EXCEPT !.sync = @ - 1]
    /\ UNCHANGED <<pantries, settings, upload, lastRead, remote, file>>

\* Line 977.
SyncMarkSyncing(p) ==
    /\ sync[p].pc = "marking"
    /\ settings' = updateDataSyncSettings(settings, [syncStatus |-> "syncing", lastError |-> {}])
    /\ sync' = [sync EXCEPT ![p] = [@ EXCEPT !.pc = "validating", !.wrote = Append(@, "syncing")]]
    /\ UNCHANGED <<pantries, upload, lastRead, budget, remote, file>>

\* SyncValidate with the result of the validation not looked at.
SyncValidateIgnored(p) ==
    /\ sync[p].pc = "validating"
    /\ \E catalog \in RemoteOutcomes :
          sync' = [sync EXCEPT ![p] =
              [@ EXCEPT !.validation = validateMapping(settings.columnMapping, catalog),
                        !.pc = "fetching"]]
    /\ UNCHANGED <<pantries, settings, upload, lastRead, budget, remote, file>>

\* Lines 981-982: validateMapping, with whatever getListColumns does.
SyncValidate(p) ==
    /\ sync[p].pc = "validating"
    /\ \E catalog \in RemoteOutcomes :
          LET validation == validateMapping(settings.columnMapping, catalog)
          IN  sync' = [sync EXCEPT ![p] =
                  [@ EXCEPT !.validation = validation,
                            !.pc = IF validation.valid THEN "fetching" ELSE "invalid"]]
    /\ UNCHANGED <<pantries, settings, upload, lastRead, budget, remote, file>>

\* Lines 983-987: the mapping is invalid.
SyncRejectMapping(p) ==
    /\ sync[p].pc = "invalid"
    /\ settings' = updateDataSyncSettings(settings,
          [syncStatus |-> "error",
           lastError |-> {[kind |-> "Invalid column mapping",
                           errors |-> sync[p].validation.errors]}])
    /\ sync' = [sync EXCEPT ![p] =
          [@ EXCEPT !.pc = "done", !.status = 400, !.wrote = Append(@, "error")]]
    /\ UNCHANGED <<pantries, upload, lastRead, budget, remote, file>>

\* SyncFetch with a failed list fetch tried again.
SyncFetchRetrying(p) ==
    /\ sync[p].pc = "fetching"
    /\ \E list \in RemoteOutcomes :
          sync' = [sync EXCEPT ![p] =
              IF list = "ok"
              THEN [@ EXCEPT !.pc = "loop",
                             !.pantries = syncListData(FirstPage(remote), settings.columnMapping)]
              ELSE [@ EXCEPT !.syncError = list]]
    /\ UNCHANGED <<pantries, settings, upload, lastRead, budget, remote, file>>

\* Line 991: syncListData returns the candidates or throws.
SyncFetch(p) ==
    /\ sync[p].pc = "fetching"
    /\ \E list \in RemoteOutcomes :
          sync' = [sync EXCEPT ![p] =
              IF list = "ok"
              THEN [@ EXCEPT !.pc = "loop",
                             !.pantries = syncListData(FirstPage(remote), settings.columnMapping)]
              ELSE [@ EXCEPT !.pc = "failed", !.syncError = list]]
    /\ UNCHANGED <<pantries, settings, upload, lastRead, budget, remote, file>>

\* Lines 998-1006: one iteration of the import loop.
SyncRow(p) ==
    LET r == sync[p]
        pantryData == r.pantries[r.index + 1]
    IN  /\ r.pc = "loop"
        /\ r.index < Len(r.pantries)
        /\ IF ~SchemaAccepts(pantryData) \/ InsertThrows(pantryData)
           THEN /\ sync' = [sync EXCEPT ![p] =
                      [@ EXCEPT !.index = @ + 1,
                                !.errors = Append(@, [name |-> pantryData.name]),
                                !.log = Append(@, 0)]]
                /\ UNCHANGED pantries
           ELSE /\ pantries' = createPantry(pantries, pantryData)
                /\ sync' = [sync EXCEPT ![p] =
                      [@ EXCEPT !.index = @ + 1, !.imported = @ + 1,
                                !.log = Append(@, Len(pantries) + 1)]]
        /\ UNCHANGED <<settings, upload, lastRead, budget, remote, file>>

\* ExportService.generateSyncReport: the counts in the header, every error
\* as a numbered line, the number of records processed.
generateSyncReport(imported, updated, errors) ==
    [imported |-> imported, updated |-> updated, errorCount |-> Len(errors),
     lines |-> [i \in 1..Len(errors) |-> [number |-> i, error |-> errors[i]]],
     processed |-> imported + updated]

\* SyncSucceed with no lastSync written.
SyncSucceedUnstamped(p) ==
    /\ sync[p].pc = "loop"
    /\ sync[p].index = Len(sync[p].pantries)
    /\ settings' = updateDataSyncSettings(settings,
          [syncStatus |-> "success",
           lastError |-> IF Len(sync[p].errors) > 0
                         THEN {[kind |-> "errors occurred", count |-> Len(sync[p].errors)]}
                         ELSE {}])
    /\ sync' = [sync EXCEPT ![p] =
          [@ EXCEPT !.pc = "done", !.status = 200, !.wrote = Append(@, "success"),
                    !.response = {[imported |-> sync[p].imported,
                                   updated |-> 0,
                                   errors |-> slice(sync[p].errors, ErrorsReturned),
                                   report |-> generateSyncReport(sync[p].imported, 0,
                                                                 sync[p].errors)]}]]
    /\ UNCHANGED <<pantries, upload, lastRead, budget, remote, file>>

\* Lines 1009-1023: the loop is over; the status is written and the report
\* returned.
SyncSucceed(p) ==
    /\ sync[p].pc = "loop"
    /\ sync[p].index = Len(sync[p].pantries)
    /\ settings' = updateDataSyncSettings(settings,
          [syncStatus |-> "success",
           lastSync |-> {p},
           lastError |-> IF Len(sync[p].errors) > 0
                         THEN {[kind |-> "errors occurred", count |-> Len(sync[p].errors)]}
                         ELSE {}])
    /\ sync' = [sync EXCEPT ![p] =
          [@ EXCEPT !.pc = "done", !.status = 200, !.wrote = Append(@, "success"),
                    !.response = {[imported |-> sync[p].imported,
                                   updated |-> 0,
                                   errors |-> slice(sync[p].errors, ErrorsReturned),
                                   report |-> generateSyncReport(sync[p].imported, 0,
                                                                 sync[p].errors)]}]]
    /\ UNCHANGED <<pantries, upload, lastRead, budget, remote, file>>

\* SyncFail with the inner catch only rethrowing.
SyncFailWithoutCleanup(p) ==
    /\ sync[p].pc = "failed"
    /\ sync' = [sync EXCEPT ![p] = [@ EXCEPT !.pc = "done", !.status = 500]]
    /\ UNCHANGED <<pantries, settings, upload, lastRead, budget, remote, file>>

\* Lines 1025-1038: the inner catch writes the error and rethrows; the outer
\* catch answers 500.
SyncFail(p) ==
    /\ sync[p].pc = "failed"
    /\ settings' = updateDataSyncSettings(settings,
          [syncStatus |-> "error",
           lastError |-> {[kind |-> "message", cause |-> sync[p].syncError]}])
    /\ sync' = [sync EXCEPT ![p] =
          [@ EXCEPT !.pc = "done", !.status = 500, !.wrote = Append(@, "error")]]
    /\ UNCHANGED <<pantries, upload, lastRead, budget, remote, file>>

(***************************************************************************)
(* The pantry routes: create, update, delete, list, get, search.           *)
(***************************************************************************)
\* Bodies of POST /api/pantries that insertPantrySchema accepts.
AdminBodies ==
    {[name |-> Str(Erie), address |-> Str(Main), city |-> Str(Erie), state |-> Str(NJ),
      zipCode |-> Str(<<>>), latitude |-> Str(<<"4", "1">>), longitude |-> Null],
     [name |-> Str(Hope), address |-> Str(Main), city |-> Str(Erie), state |-> Str(NJ),
      zipCode |-> Str(<<>>), latitude |-> Str(<<"4", "0">>),
      longitude |-> Str(<<"-", "7", "5">>), isActive |-> TRUE]}

\* Bodies of PUT /api/pantries/:id that insertPantrySchema.partial() accepts.
AdminPatches == {[name |-> Erie], [isActive |-> TRUE], [isActive |-> FALSE]}

StoredIds == {pantries[i].id : i \in 1..Len(pantries)}

\* POST /api/pantries (lines 549-561)
AdminCreate ==
    /\ budget.admin > 0
    /\ \E body \in AdminBodies : pantries' = createPantry(pantries, body)
    /\ budget' = [budget EXCEPT !.admin = @ - 1]
    /\ UNCHANGED <<settings, sync, upload, lastRead, remote, file>>

\* PUT /api/pantries/:id (lines 563-575)
AdminUpdate ==
    /\ budget.admin > 0
    /\ \E id \in StoredIds, patch \in AdminPatches :
          pantries' = updatePantry(pantries, id, patch)
    /\ budget' = [budget EXCEPT !.admin = @ - 1]
    /\ UNCHANGED <<settings, sync, upload, lastRead, remote, file>>

\* DELETE /api/pantries/:id (lines 577-585)
AdminDelete ==
    /\ budget.admin > 0
    /\ \E id \in StoredIds : pantries' = deletePantry(pantries, id)
    /\ budget' = [budget EXCEPT !.admin = @ - 1]
    /\ UNCHANGED <<settings, sync, upload, lastRead, remote, file>>

\* DELETE /api/pantries (lines 742-750)
AdminDeleteAll ==
    /\ budget.admin > 0
    /\ pantries # <<>>
    /\ pantries' = deleteAllPantries(pantries)
    /\ budget' = [budget EXCEPT !.admin = @ - 1]
    /\ UNCHANGED <<settings, sync, upload, lastRead, remote, file>>

NoRead == [op |-> "none", rows |-> <<>>]

\* GET /api/pantries (lines 468-476)
ReadList ==
    /\ lastRead' = [op |-> "list", rows |-> getPantries(pantries)]
    /\ UNCHANGED <<pantries, settings, sync, upload, remote, file, budget>>

\* GET /api/pantries/:id (lines 535-546): the row, or 404 with no row
ReadOne ==
    /\ \E id \in StoredIds \cup {Len(pantries) + 1} :
          lastRead' = [op |-> "get", id |-> id, rows |-> getPantry(pantries, id)]
    /\ UNCHANGED <<pantries, settings, sync, upload, remote, file, budget>>

\* The arguments of a search call.  A query parameter that is absent, empty
\* or not a number reaches searchPantries as undefined or NaN, both falsy: {}.
SearchCall(query, latitude, longitude, radius, rows) ==
    [op |-> "search", query |-> query, latitude |-> latitude, longitude |-> longitude,
     radius |-> radius, rows |-> rows]

\* The orders in which a SELECT without ORDER BY may yield the given rows
\* (storage.ts:194 has no orderBy): any.
RowOrders(rows) ==
    {[i \in 1..Len(rows) |-> rows[f[i]]] : f \in Permutations(1..Len(rows))}

\* GET /api/pantries/search (lines 478-492) with arguments from the given sets
SearchRequest(queries, latitudes, longitudes, radii) ==
    /\ \E query \in queries, latitude \in latitudes, longitude \in longitudes,
          radius \in radii :
          \E rows \in RowOrders(searchPantries(pantries, query, latitude, longitude, radius)) :
              lastRead' = SearchCall(query, latitude, longitude, radius, rows)
    /\ UNCHANGED <<pantries, settings, sync, upload, remote, file>>

\* The searches of the store specification: a few arguments (without a
\* radius no distance filter applies).
ReadSearch ==
    /\ SearchRequest({<<>>, <<"h", "o">>}, {{40}}, {{-75}}, {{}, {100}})
    /\ UNCHANGED budget

(***************************************************************************)
(* The ingestion specification: uploads and sync runs of one               *)
(* configuration, interleaved at their awaits.                             *)
(***************************************************************************)
SettingsRow(mapping) ==
    [columnMapping |-> mapping, syncStatus |-> "pending", lastError |-> {}, lastSync |-> {}]

\* The requests of a behaviour: MaxRuns of them, of the kinds given.  The
\* ingestion runs of one behaviour are of one kind, uploads or sync runs,
\* concurrent with each other and with the admin requests.
Budgets(kinds) ==
    {b \in [{"sync", "upload", "admin"} -> 0..MaxRuns] :
        /\ b.sync + b.upload + b.admin = MaxRuns
        /\ b.sync = 0 \/ b.upload = 0
        /\ \A k \in DOMAIN b : b[k] > 0 => k \in kinds}

\* The environment a behaviour needs: a remote list and a mapping only when
\* a sync run will read them, a file only when it will be uploaded.
InitWith(kinds) ==
    /\ pantries = <<>>
    /\ sync = [p \in Syncers |-> SyncIdle]
    /\ upload = [u \in Uploaders |-> UploadIdle]
    /\ lastRead = NoRead
    /\ budget \in Budgets(kinds)
    /\ settings \in {SettingsRow(m) :
                        m \in IF budget.sync > 0 THEN Mappings ELSE {MappingComplete}}
    /\ remote \in IF budget.sync > 0 THEN RemoteLists ELSE {<<>>}
    /\ file \in IF budget.upload > 0 THEN Files ELSE {<<>>}

Init == InitWith({"sync", "upload"})

UploadStep == \E u \in Uploaders : UploadReceive(u) \/ UploadRow(u) \/ UploadRespond(u)

SyncStep ==
    \E p \in Syncers :
        \/ SyncStart(p)
        \/ SyncMarkSyncing(p)
        \/ SyncValidate(p)
        \/ SyncRejectMapping(p)
        \/ SyncFetch(p)
        \/ SyncRow(p)
        \/ SyncSucceed(p)
        \/ SyncFail(p)

Next == UploadStep \/ SyncStep

Spec == Init /\ [][Next]_vars

(***************************************************************************)
(* Claims about the ingestion runs.                                        *)
(***************************************************************************)
SyncExecuting(p) == sync[p].pc \notin {"idle", "done"}

Last(q) == q[Len(q)]

StateNotMapped == [kind |-> "not mapped", field |-> "state"]

InSeq(x, q) == \E i \in 1..Len(q) : q[i] = x

\* C2: a sync run whose mapping validation returned valid = false fetches no
\* items and creates no record; when 'state' is unmapped the validation is
\* invalid and, the catalog having been fetched, its errors name 'state'.
C2_InvalidMappingCreatesNothing ==
    \A p \in Syncers :
        /\ ~sync[p].validation.valid
             => /\ sync[p].pc \in {"invalid", "done"}
                /\ sync[p].pantries = <<>>
                /\ sync[p].log = <<>>
                /\ sync[p].imported = 0
                /\ sync[p].status # 200
                /\ sync[p].validation.errors # <<>>
        /\ (sync[p].pc \in {"invalid", "fetching", "failed", "loop"}
              /\ MappedColumn(settings.columnMapping, "state") = "")
             => /\ ~sync[p].validation.valid
                /\ \/ InSeq(StateNotMapped, sync[p].validation.errors)
                   \/ sync[p].validation.errors[1].kind = "Failed to validate mapping"

\* A run over a non-empty remote list was rejected for the unmapped 'state'
\* and returned; the store is as it was.
C2_Witness ==
    \E p \in Syncers :
        /\ sync[p].pc = "done" /\ sync[p].status = 400
        /\ sync[p].validation.errors = <<StateNotMapped>>
        /\ remote # <<>>
        /\ pantries = <<>>

\* What the loops do with a candidate.
UploadAccepts(pantryData) ==
    /\ ~MissingRequired(pantryData)
    /\ SchemaAccepts(WithDefaults(pantryData))
    /\ ~InsertThrows(WithDefaults(pantryData))

SyncAccepts(pantryData) == SchemaAccepts(pantryData) /\ ~InsertThrows(pantryData)

\* The log of a loop over candidates: one entry per candidate handled, in
\* input order; a candidate is persisted (as the row of the id logged, with
\* ids growing) exactly when it is acceptable, whatever came before it.
LoopLogOk(candidates, index, log, Accepts(_), Prepare(_)) ==
    /\ index <= Len(candidates)
    /\ Len(log) = index
    /\ \A i \in 1..index :
          /\ (log[i] # 0) = Accepts(candidates[i])
          /\ log[i] # 0 =>
                /\ log[i] \in 1..Len(pantries)
                /\ pantries[log[i]] = NewRow(SubSeq(pantries, 1, log[i] - 1),
                                             Prepare(candidates[i]))
          /\ \A j \in 1..(i - 1) : (log[j] # 0 /\ log[i] # 0) => log[j] < log[i]

Identity(x) == x

\* C3: in both ingestion loops a failing candidate does not stop the batch:
\* every candidate is handled once, in input order, every acceptable one is
\* persisted whatever preceded it, and when the loop has ended
\* acceptedCount + rejectedCount is the number of candidates.
C3_AccumulateAndContinue ==
    /\ \A u \in Uploaders :
          LET r == upload[u]
          IN  /\ LoopLogOk(r.pantries, r.index, r.log, UploadAccepts, WithDefaults)
              /\ r.successCount + r.errorCount = r.index
              /\ r.errorCount = Len(r.errors)
              /\ r.status = 200 =>
                    /\ r.index = Len(r.pantries)
                    /\ r.successCount + r.errorCount = Len(r.pantries)
    /\ \A p \in Syncers :
          LET r == sync[p]
          IN  /\ LoopLogOk(r.pantries, r.index, r.log, SyncAccepts, Identity)
              /\ r.imported + Len(r.errors) = r.index
              /\ r.status = 200 =>
                    /\ r.index = Len(r.pantries)
                    /\ r.imported + Len(r.errors) = Len(r.pantries)

\* An upload has returned whose first candidate failed and whose second was
\* persisted.
C3_Witness ==
    \E u \in Uploaders :
        /\ upload[u].status = 200
        /\ Len(upload[u].log) = 2
        /\ upload[u].log[1] = 0
        /\ upload[u].log[2] # 0
        /\ upload[u].successCount = 1 /\ upload[u].errorCount = 1

\* C4: every record an ingestion path created has a non-empty name, a
\* non-empty state, and a non-empty address or city.
C4_CreatedRecordsHaveRequiredFields ==
    \A i \in 1..Len(pantries) :
        /\ pantries[i].name # <<>>
        /\ pantries[i].state # <<>>
        /\ pantries[i].address # <<>> \/ pantries[i].city # <<>>

(***************************************************************************)
(* The store specification: the admin requests and the reads, concurrent   *)
(* with ingestion runs.                                                    *)
(***************************************************************************)
AdminStep == AdminCreate \/ AdminUpdate \/ AdminDelete \/ AdminDeleteAll

ReadStep == ReadList \/ ReadOne \/ ReadSearch

InitStore == InitWith({"sync", "upload", "admin"})

NextStore == UploadStep \/ SyncStep \/ AdminStep \/ ReadStep

SpecStore == InitStore /\ [][NextStore]_vars

\* C5: no read of the record store (list, search, get by id) returns a
\* record whose active flag is false.
C5_ReadsReturnOnlyActive ==
    \A i \in 1..Len(lastRead.rows) : lastRead.rows[i].isActive

(***************************************************************************)
(* The search specification: searchPantries applied to a store drawn from  *)
(* sample rows, with queries over a small alphabet and centres and radii   *)
(* that include zero.                                                      *)
(***************************************************************************)
SearchRow(name, city, latitude, longitude, isActive) ==
    [name |-> name, address |-> <<>>, city |-> city, state |-> <<>>, zipCode |-> <<>>,
     latitude |-> latitude, longitude |-> longitude, isActive |-> isActive]

SearchRows ==
    {SearchRow(<<"A", "b">>, <<>>, {40}, {-75}, TRUE),
     SearchRow(<<"b">>, <<"a", "_">>, {41}, {-74}, TRUE),
     SearchRow(<<"a", " ", "b">>, <<>>, {40}, {}, TRUE),
     SearchRow(<<"B">>, <<>>, {}, {}, TRUE),
     SearchRow(<<"A", "b">>, <<>>, {40}, {-75}, FALSE),
     SearchRow(<<"b", "a">>, <<>>, {0}, {0}, TRUE)}

\* The store holding the given rows, ids in insertion order.
StoreOf(rows) ==
    [i \in 1..Len(rows) |->
        [id |-> i, name |-> rows[i].name, address |-> rows[i].address,
         city |-> rows[i].city, state |-> rows[i].state, zipCode |-> rows[i].zipCode,
         latitude |-> rows[i].latitude, longitude |-> rows[i].longitude,
         isActive |-> rows[i].isActive]]

SearchQueries == TextsUpTo({"a", "B", "_", " "}, MaxQueryLen)
SearchLatitudes == {{}, {0}, {40}}
SearchLongitudes == {{}, {0}, {-75}}
SearchRadii == {0, 10, 60, 100}

InitSearch ==
    /\ pantries \in {StoreOf(rows) : rows \in SeqsUpTo(SearchRows, MaxSearchRows)}
    /\ sync = [p \in Syncers |-> SyncIdle]
    /\ upload = [u \in Uploaders |-> UploadIdle]
    /\ lastRead = NoRead
    /\ budget = [sync |-> 0, upload |-> 0, admin |-> 0, search |-> 1]
    /\ settings = SettingsRow(MappingComplete)
    /\ remote = <<>>
    /\ file = <<>>

\* One search per behaviour: the store does not change here, so a second
\* search would only repeat the function on the same store.
Search ==
    /\ budget.search > 0
    /\ SearchRequest(SearchQueries, SearchLatitudes, SearchLongitudes,
                     {{}} \cup {{r} : r \in SearchRadii})
    /\ budget' = [budget EXCEPT !.search = @ - 1]

NextSearch == Search

SpecSearch == InitSearch /\ [][NextSearch]_vars

\* The last read is a search that was given a centre and a radius.
SearchWithCentre ==
    /\ lastRead.op = "search"
    /\ Given(lastRead.latitude)
    /\ Given(lastRead.longitude)
    /\ Given(lastRead.radius)

\* C6: a search given latitude, longitude and radius, whatever their numeric
\* values (zero included), returns only records that have both coordinates
\* and lie within radius * 1.60934 km of the centre.
C6_RadiusFilterForAllNumbers ==
    SearchWithCentre =>
        \A i \in 1..Len(lastRead.rows) :
            LET p == lastRead.rows[i]
            IN  /\ p.latitude # {}
                /\ p.longitude # {}
                /\ distanceFormula(ValueOf(lastRead.latitude), ValueOf(lastRead.longitude),
                                   ValueOf(p.latitude), ValueOf(p.longitude)) * 100
                     <= radiusInKm(ValueOf(lastRead.radius))

\* C7: a search given a centre and any radius never returns a record that has
\* exactly one of latitude and longitude.
C7_OneCoordinateNeverReturned ==
    SearchWithCentre =>
        \A i \in 1..Len(lastRead.rows) :
            (lastRead.rows[i].latitude = {}) = (lastRead.rows[i].longitude = {})

\* C8: with the store, the query and the centre fixed, every record returned
\* with radius r1 >= 0 is returned with every radius r2 >= r1.
C8_RadiusMonotone ==
    SearchWithCentre =>
        \A r2 \in SearchRadii :
            ValueOf(lastRead.radius) <= r2 =>
                Ids(lastRead.rows) \subseteq
                    Ids(searchPantries(pantries, lastRead.query, lastRead.latitude,
                                       lastRead.longitude, {r2}))

\* The query, as literal text, is a case-insensitive substring of a
\* searched column of p.
LiteralMatch(p, query) ==
    \E f \in SearchedColumns : includes(toLowerCase(p[f]), toLowerCase(query))

\* C9: for a non-empty query, of whatever characters, an active record
\* passes the text filter iff the literal query is a case-insensitive
\* substring of its name, address, city, state or postal code.
C9_TextFilterIsLiteralSubstring ==
    (/\ lastRead.op = "search"
     /\ lastRead.query # <<>>
     /\ ~Given(lastRead.latitude) /\ ~Given(lastRead.longitude) /\ ~Given(lastRead.radius))
    => \A i \in 1..Len(pantries) :
          pantries[i].isActive =>
              ((pantries[i].id \in Ids(lastRead.rows))
                  <=> LiteralMatch(pantries[i], lastRead.query))

\* The result of the last search with its centre and radius left out, and
\* with its query left out.
TextOnly == searchPantries(pantries, lastRead.query, {}, {}, {})
RadiusOnly ==
    searchPantries(pantries, <<>>, lastRead.latitude, lastRead.longitude, lastRead.radius)

\* C10: a search given a non-empty query and a centre with radius returns
\* the intersection of the text-only and the radius-only results; a search
\* given an empty query and neither centre nor radius returns all active
\* records.
C10_FiltersAreConjunctive ==
    /\ (SearchWithCentre /\ lastRead.query # <<>>)
          => Ids(lastRead.rows) = Ids(TextOnly) \cap Ids(RadiusOnly)
    /\ (/\ lastRead.op = "search"
        /\ lastRead.query = <<>>
        /\ ~Given(lastRead.latitude) /\ ~Given(lastRead.longitude) /\ ~Given(lastRead.radius))
          => /\ Len(lastRead.rows) = Len(getPantries(pantries))
             /\ Ids(lastRead.rows) = Ids(getPantries(pantries))

\* A search with both filters in force, where each filter alone returns a
\* record the other rejects.
C10_Witness ==
    /\ SearchWithCentre
    /\ TextRequested(lastRead.query)
    /\ GeoRequested(lastRead.latitude, lastRead.longitude, lastRead.radius)
    /\ Ids(TextOnly) \ Ids(RadiusOnly) # {}
    /\ Ids(RadiusOnly) \ Ids(TextOnly) # {}

(***************************************************************************)
(* The ordering specification: repeated searches of an unchanged store.    *)
(***************************************************************************)
InitOrder ==
    /\ pantries \in {StoreOf(rows) : rows \in SeqsUpTo(SearchRows, MaxSearchRows)}
    /\ sync = [p \in Syncers |-> SyncIdle]
    /\ upload = [u \in Uploaders |-> UploadIdle]
    /\ lastRead = NoRead
    /\ budget = [sync |-> 0, upload |-> 0, admin |-> 0, search |-> MaxSearches]
    /\ settings = SettingsRow(MappingComplete)
    /\ remote = <<>>
    /\ file = <<>>

SearchAgain ==
    /\ budget.search > 0
    /\ SearchRequest({<<>>, <<"b">>}, {{}, {40}}, {{}, {-75}}, {{}, {100}})
    /\ budget' = [budget EXCEPT !.search = @ - 1]

NextOrder == SearchAgain

SpecOrder == InitOrder /\ [][NextOrder]_vars

\* C11: two searches with the same arguments over an unchanged store return
\* the same records in the same order.
C11_SearchOrderIsStable ==
    [][(/\ lastRead.op = "search"
        /\ lastRead'.op = "search"
        /\ pantries' = pantries
        /\ lastRead'.query = lastRead.query
        /\ lastRead'.latitude = lastRead.latitude
        /\ lastRead'.longitude = lastRead.longitude
        /\ lastRead'.radius = lastRead.radius)
          => lastRead'.rows = lastRead.rows]_vars

\* The positions (1-based) of the rows of the file that become candidates:
\* those the parser keeps and the row mapping does not skip.
CandidatePositions ==
    SelectSeq([i \in 1..Len(file) |-> i],
              LAMBDA i : KeptByParser(file[i]) /\ ~SkippedByMapping(file[i]))

\* The iterations (1-based) of a loop that rejected their candidate.
RejectedIterations(log) == SelectSeq([j \in 1..Len(log) |-> j], LAMBDA j : log[j] = 0)

\* C12: every itemized rejection reason carries the position of its source
\* row in the original input: for an upload the line of the row in the file
\* (the header being line 1), for a sync run the position of the item in the
\* remote list.
C12_ErrorsCarrySourcePosition ==
    /\ \A u \in Uploaders :
          \A n \in 1..Len(upload[u].errors) :
              upload[u].errors[n].row
                  = CandidatePositions[RejectedIterations(upload[u].log)[n]] + 1
    /\ \A p \in Syncers :
          \A n \in 1..Len(sync[p].errors) : "row" \in DOMAIN sync[p].errors[n]

(***************************************************************************)
(* The report specification: one ingestion run over an input long enough   *)
(* for more rejections than the response itemizes.                         *)
(***************************************************************************)
ReportFiles == SeqsUpTo({RowComplete, RowNoLocation}, MaxReportItems)
ReportLists == SeqsUpTo({ItemComplete, ItemNumericTitle}, MaxReportItems)

InitReport ==
    /\ pantries = <<>>
    /\ sync = [p \in Syncers |-> SyncIdle]
    /\ upload = [u \in Uploaders |-> UploadIdle]
    /\ lastRead = NoRead
    /\ budget \in {[sync |-> 1, upload |-> 0, admin |-> 0],
                   [sync |-> 0, upload |-> 1, admin |-> 0]}
    /\ settings \in {SettingsRow(m) :
                        m \in IF budget.sync > 0 THEN Mappings ELSE {MappingComplete}}
    /\ remote \in IF budget.sync > 0 THEN ReportLists ELSE {<<>>}
    /\ file \in IF budget.upload > 0 THEN ReportFiles ELSE {<<>>}

NextReport == UploadStep \/ SyncStep

SpecReport == InitReport /\ [][NextReport]_vars

Min(a, b) == IF a < b THEN a ELSE b

\* C13: a run with k rejected candidates reports the first min(k, 10)
\* reasons in input order, itemizes no more than those, and carries the
\* count k: in the response of an upload and in the response and report of
\* a sync run.
C13_ReportTruncatedWithTotal ==
    /\ \A u \in Uploaders :
          \A body \in upload[u].response :
              LET k == Len(upload[u].errors)
              IN  /\ body.errors = SubSeq(upload[u].errors, 1, Min(k, ErrorsReturned))
                  /\ body.errorCount = k
    /\ \A p \in Syncers :
          \A body \in sync[p].response :
              LET k == Len(sync[p].errors)
              IN  /\ body.errors = SubSeq(sync[p].errors, 1, Min(k, ErrorsReturned))
                  /\ body.report.errorCount = k
                  /\ Len(body.report.lines) = Min(k, ErrorsReturned)

\* The exception of a remote call (credential exchange, catalog fetch, list
\* fetch) that run r has captured: {} when it has captured none.
CapturedFailure(r) ==
    (IF r.syncError = "" THEN {} ELSE {r.syncError})
    \cup {r.validation.errors[i].cause :
            i \in {j \in 1..Len(r.validation.errors) :
                      r.validation.errors[j].kind = "Failed to validate mapping"}}

\* lastError holds the captured message, as it is or inside the validation
\* errors it lists.
HoldsMessage(lastError, cause) ==
    \E e \in lastError :
        \/ e.kind = "message" /\ e.cause = cause
        \/ /\ e.kind = "Invalid column mapping"
           /\ \E i \in 1..Len(e.errors) :
                 e.errors[i].kind = "Failed to validate mapping" /\ e.errors[i].cause = cause

\* C14: a sync run in which the credential exchange or a remote call has
\* failed makes no further remote call and creates no record; its next step
\* is its last, and writes syncStatus 'error' with lastError holding the
\* captured message.
C14_RemoteFailureEndsRun ==
    [][\A p \in Syncers :
          /\ CapturedFailure(sync'[p]) # {} =>
                /\ sync'[p].pc \in {"invalid", "failed", "done"}
                /\ sync'[p].log = <<>>
                /\ sync'[p].imported = 0
                /\ Cardinality(CapturedFailure(sync'[p])) = 1
          /\ (CapturedFailure(sync[p]) # {} /\ sync'[p] # sync[p]) =>
                /\ sync[p].pc \in {"invalid", "failed"}
                /\ sync'[p].pc = "done"
                /\ sync'[p].status \in {400, 500}
                /\ pantries' = pantries
                /\ settings'.syncStatus = "error"
                /\ \A cause \in CapturedFailure(sync[p]) :
                      HoldsMessage(settings'.lastError, cause)]_vars

\* A run has ended on a failed credential exchange of the list fetch, after
\* a valid mapping, over a non-empty remote list; no record exists and the
\* configuration holds the message.
C14_Witness ==
    \E p \in Syncers :
        /\ sync[p].pc = "done"
        /\ sync[p].validation.valid
        /\ sync[p].syncError = "auth"
        /\ remote # <<>>
        /\ pantries = <<>>
        /\ settings.syncStatus = "error"
        /\ HoldsMessage(settings.lastError, "auth")

\* C15: a sync run is answered as an invalid mapping (400, lastError
\* 'Invalid column mapping') only for a mapping-validation failure, a
\* required field unmapped or mapped to a column the list does not have;
\* never for a failed credential exchange or catalog fetch.
C15_RemoteFailureNotInvalidMapping ==
    \A p \in Syncers :
        (sync[p].pc = "done" /\ sync[p].status = 400 /\ sync[p].wrote # <<>>)
           => \A i \in 1..Len(sync[p].validation.errors) :
                 sync[p].validation.errors[i].kind \in {"not mapped", "does not exist"}

\* The required fields the mapping leaves unmapped or maps to a column the
\* remote list does not have.
OffendingFields(mapping) ==
    {requiredFields[i] : i \in {j \in 1..Len(requiredFields) :
        MappedColumn(mapping, requiredFields[j]) \notin ListColumns}}

\* Run p has called validateMapping and holds its result.
Validated(p) ==
    \/ sync[p].pc \in {"invalid", "fetching", "failed", "loop"}
    \/ sync[p].pc = "done" /\ sync[p].wrote # <<>>

\* C16: validateMapping returns valid = true iff every required field is
\* mapped to a column of the remote list; otherwise errors has one entry for
\* each offending required field, naming it; valid = (errors is empty).
C16_ValidIffRequiredFieldsMapped ==
    \A p \in Syncers :
        Validated(p) =>
            LET v == sync[p].validation
                offending == OffendingFields(settings.columnMapping)
            IN  /\ v.valid = (offending = {})
                /\ v.valid = (v.errors = <<>>)
                /\ Len(v.errors) = Cardinality(offending)
                /\ \A i \in 1..Len(v.errors) :
                      "field" \in DOMAIN v.errors[i] /\ v.errors[i].field \in offending
                /\ \A f \in offending : \E i \in 1..Len(v.errors) : v.errors[i].field = f

\* The candidates of a loop that had no state and were accepted have the
\* default state in the store.
DefaultStateStored(candidates, log) ==
    \A i \in 1..Len(log) :
        (log[i] # 0 /\ ~Truthy(candidates[i].state))
           => pantries[log[i]].state = DefaultState

\* C17: every accepted candidate that was missing its state, absent or
\* empty, is stored with the default state 'PA', from an upload and from a
\* sync run.
C17_MissingStateDefaulted ==
    /\ \A u \in Uploaders : DefaultStateStored(upload[u].pantries, upload[u].log)
    /\ \A p \in Syncers : DefaultStateStored(sync[p].pantries, sync[p].log)

(***************************************************************************)
(* The cleaning specification: one upload of a one-row file whose address  *)
(* is a text built from markup characters, entities and whitespace.        *)
(***************************************************************************)
CleanTokens ==
    {<<"a">>,
     <<" ">>,
     <<"\t">>,
     <<"<">>,
     <<">">>,
     <<"&", "l", "t", ";">>,
     <<"&", "g", "t", ";">>,
     <<"&", "a", "m", "p", ";">>,
     <<"l", "t", ";">>,
     <<"&", "n", "b", "s", "p", ";">>}

\* Concatenations of at most n tokens.
RECURSIVE TokenTexts(_)
TokenTexts(n) ==
    IF n = 0 THEN {<<>>}
    ELSE TokenTexts(n - 1) \cup {k \o x : k \in CleanTokens, x \in TokenTexts(n - 1)}

CleanFiles == {<<[RowComplete EXCEPT !.address = x]>> : x \in TokenTexts(MaxTokens)}

InitClean ==
    /\ pantries = <<>>
    /\ sync = [p \in Syncers |-> SyncIdle]
    /\ upload = [u \in Uploaders |-> UploadIdle]
    /\ lastRead = NoRead
    /\ budget = [sync |-> 0, upload |-> 1, admin |-> 0]
    /\ settings = SettingsRow(MappingComplete)
    /\ remote = <<>>
    /\ file \in CleanFiles

NextClean == UploadStep

SpecClean == InitClean /\ [][NextClean]_vars

\* The addresses the row mapping of an upload has produced.
CleanedAddresses ==
    {upload[u].pantries[i].address.s :
        u \in {v \in Uploaders : upload[v].pc # "idle"}, i \in 1..Len(file)}

\* C18: cleanHtmlAndWordPress is idempotent: cleaning a cleaned text gives
\* the same text.
C18_CleanIdempotent ==
    \A x \in CleanedAddresses : cleanHtmlAndWordPress(x) = x

Entities ==
    {<<"&", "n", "b", "s", "p", ";">>,
     <<"&", "a", "m", "p", ";">>,
     <<"&", "l", "t", ";">>,
     <<"&", "g", "t", ";">>,
     <<"&", "q", "u", "o", "t", ";">>,
     <<"&", "#", "3", "9", ";">>}

\* No tag and no block comment: no '<' with a '>' after it.
NoMarkup(x) == ~\E i, j \in 1..Len(x) : i < j /\ x[i] = "<" /\ x[j] = ">"

NoEntities(x) == \A e \in Entities : ~includes(x, e)

\* No leading or trailing whitespace and no two whitespace characters in a
\* row.
NoExtraWhitespace(x) ==
    /\ x # <<>> => (x[1] \notin Whitespace /\ x[Len(x)] \notin Whitespace)
    /\ \A i \in 1..(Len(x) - 1) : ~(x[i] \in Whitespace /\ x[i + 1] \in Whitespace)

\* The whitespace of x is spaces.
OnlySpaces(x) == \A i \in 1..Len(x) : x[i] \in Whitespace => x[i] = " "

\* The address of the uploaded row has been mapped.
AddressMapped == \E u \in Uploaders : upload[u].pc # "idle" /\ upload[u].pantries # <<>>

\* C19 as stated: a text with no markup, none of the six entities, no
\* leading or trailing whitespace and no run of two or more whitespace
\* characters is returned unchanged.
C19_CleanTextUnchanged_Stated ==
    \A i \in 1..Len(file) :
        (AddressMapped /\ NoMarkup(file[i].address) /\ NoEntities(file[i].address)
           /\ NoExtraWhitespace(file[i].address))
          => CleanedAddresses = {file[i].address}

\* C19: a text with no markup, none of the six entities, no leading or
\* trailing whitespace, and whose whitespace is single spaces is returned
\* unchanged.
C19_CleanTextUnchanged ==
    \A i \in 1..Len(file) :
        (AddressMapped /\ NoMarkup(file[i].address) /\ NoEntities(file[i].address)
           /\ NoExtraWhitespace(file[i].address) /\ OnlySpaces(file[i].address))
          => CleanedAddresses = {file[i].address}

\* A clean address with a space and a '<' in it has been mapped.
C19_Witness ==
    /\ AddressMapped
    /\ file[1].address = <<"a", " ", "<">>
    /\ CleanedAddresses = {file[1].address}

(***************************************************************************)
(* The frame specification: ingestion runs over a store that already holds *)
(* records, one of them soft-deleted.                                      *)
(***************************************************************************)
ExistingStore ==
    StoreOf(<<SearchRow(Hope, Erie, {40}, {-75}, FALSE), SearchRow(Hope, Erie, {}, {}, TRUE)>>)

InitFrame ==
    /\ pantries = ExistingStore
    /\ sync = [p \in Syncers |-> SyncIdle]
    /\ upload = [u \in Uploaders |-> UploadIdle]
    /\ lastRead = NoRead
    /\ budget \in Budgets({"sync", "upload"})
    /\ settings \in {SettingsRow(m) :
                        m \in IF budget.sync > 0 THEN Mappings ELSE {MappingComplete}}
    /\ remote \in IF budget.sync > 0 THEN RemoteLists ELSE {<<>>}
    /\ file \in IF budget.upload > 0 THEN Files ELSE {<<>>}

NextFrame == UploadStep \/ SyncStep

SpecFrame == InitFrame /\ [][NextFrame]_vars

\* The ids of the rows a loop has created.
CreatedIds(log) == {log[i] : i \in {j \in 1..Len(log) : log[j] # 0}}

\* C20: a step of an ingestion run leaves every stored record as it was,
\* active flag included, and adds at most one record, with a fresh id; two
\* uploads of the same file each add their accepted rows as new records.
C20_IngestionOnlyAdds ==
    /\ [][(upload' # upload \/ sync' # sync) =>
             /\ Len(pantries') \in {Len(pantries), Len(pantries) + 1}
             /\ SubSeq(pantries', 1, Len(pantries)) = pantries
             /\ \A i \in (Len(pantries) + 1)..Len(pantries') :
                   pantries'[i].id \notin StoredIds]_vars
    /\ [](\A u, v \in Uploaders :
             (upload[u].status = 200 /\ upload[v].status = 200 /\ u # v) =>
                /\ upload[u].successCount = upload[v].successCount
                /\ Cardinality(CreatedIds(upload[u].log)) = upload[u].successCount
                /\ CreatedIds(upload[u].log) \cap CreatedIds(upload[v].log) = {}
                /\ CreatedIds(upload[u].log) \cap {1, 2} = {}
                /\ CreatedIds(upload[u].log) \subseteq StoredIds)

\* The same file of two acceptable rows, one named as the existing records,
\* has been uploaded twice: the store holds the two old records and four
\* new ones.
C20_Witness ==
    /\ \A u \in Uploaders : upload[u].status = 200 /\ upload[u].successCount = 2
    /\ Len(pantries) = 6
    /\ SubSeq(pantries, 1, 2) = ExistingStore
    /\ ~pantries[1].isActive

(***************************************************************************)
(* The coordinates specification: one ingestion run over one row or item   *)
(* whose latitude and longitude vary, each absent, in range, out of range  *)
(* or beyond the column.                                                   *)
(***************************************************************************)
CoordinateTexts ==
    {<<>>, <<"4", "0">>, <<"9", "5">>, <<"-", "7", "5">>, <<"1", "0", "0", "0">>}

CoordinateFiles ==
    {<<[RowComplete EXCEPT !.lat = a, !.lng = b]>> : a, b \in CoordinateTexts}

CoordinateLists ==
    {<<[ItemComplete EXCEPT !.Lat = Str(a), !.Lng = Str(b)]>> : a, b \in CoordinateTexts}

InitCoordinates ==
    /\ pantries = <<>>
    /\ sync = [p \in Syncers |-> SyncIdle]
    /\ upload = [u \in Uploaders |-> UploadIdle]
    /\ lastRead = NoRead
    /\ budget \in {[sync |-> 1, upload |-> 0, admin |-> 0],
                   [sync |-> 0, upload |-> 1, admin |-> 0]}
    /\ settings \in {SettingsRow(m) :
                        m \in IF budget.sync > 0 THEN Mappings ELSE {MappingComplete}}
    /\ remote \in IF budget.sync > 0 THEN CoordinateLists ELSE {<<>>}
    /\ file \in IF budget.upload > 0 THEN CoordinateFiles ELSE {<<>>}

NextCoordinates == UploadStep \/ SyncStep

SpecCoordinates == InitCoordinates /\ [][NextCoordinates]_vars

\* C21: every record an ingestion run has created has both coordinates or
\* neither, the latitude within [-90, 90] and the longitude within
\* [-180, 180].
C21_CoordinatesPairedAndInRange ==
    \A i \in 1..Len(pantries) :
        /\ (pantries[i].latitude = {}) = (pantries[i].longitude = {})
        /\ \A x \in pantries[i].latitude : x >= -90 /\ x <= 90
        /\ \A x \in pantries[i].longitude : x >= -180 /\ x <= 180

\* C22: the counts an upload reports cover every data row of the file:
\* successCount + errorCount is the number of data rows.
C22_EveryRowCounted ==
    \A u \in Uploaders : \A r \in upload[u].response :
        r.successCount + r.errorCount = Len(file)

(***************************************************************************)
(* The names specification: one upload of a file whose rows carry a name   *)
(* under one header each, listed by the mapping or not.                    *)
(***************************************************************************)
NameHeaders == {"name", "Name", "pantry_name", "Pantry Name", "PantryName"}

ListedNameHeaders == {"name", "Name", "pantry_name", "Pantry Name"}

HopeFoodPantry == Hope \o <<" ", "F", "o", "o", "d", " ", "P", "a", "n", "t", "r", "y">>

NameTexts == {<<>>, Hope, <<"a", "b">>, <<"1", "2", "3">>, WpslId, HopeFoodPantry}

NameRows ==
    {(h :> t) @@ [address |-> Main, city |-> Erie, state |-> NJ] :
        h \in NameHeaders, t \in NameTexts}

NameFiles == SeqsUpTo(NameRows, MaxRows) \ {<<>>}

InitNames ==
    /\ pantries = <<>>
    /\ settings = SettingsRow(MappingComplete)
    /\ sync = [p \in Syncers |-> SyncIdle]
    /\ upload = [u \in Uploaders |-> UploadIdle]
    /\ lastRead = NoRead
    /\ budget = [sync |-> 0, upload |-> 1, admin |-> 0]
    /\ remote = <<>>
    /\ file \in NameFiles

NextNames == UploadStep

SpecNames == InitNames /\ [][NextNames]_vars

\* The header a row of NameRows carries its name under, and the name.
NameHeaderOf(row) == CHOOSE h \in NameHeaders : h \in DOMAIN row

NameTextOf(row) == row[NameHeaderOf(row)]

\* The skip rule as stated: the resolved name is absent, holds the export
\* token, is digits only, or is shorter than 3 characters after trimming.
StatedSkip(row) ==
    LET name == getName(row)
    IN  \/ name = <<>>
        \/ includes(toLowerCase(name), WpslId)
        \/ IsDigitsOnly(trim(name))
        \/ Len(trim(name)) < 3

\* C23: an upload maps its file to one candidate for each row that the stated
\* skip rule does not skip, and to none for the rows it skips.
C23_SkipRuleExact ==
    \A u \in Uploaders :
        upload[u].pc # "idle" =>
            Len(upload[u].pantries) =
                Cardinality({i \in 1..Len(file) : ~StatedSkip(file[i])})

\* A name no rule of the mapping skips.
UsableName(t) ==
    /\ t # <<>>
    /\ ~includes(toLowerCase(t), WpslId)
    /\ ~includes(toLowerCase(t), FoodPantry)
    /\ Len(trim(t)) >= 3
    /\ ~IsDigitsOnly(trim(t))

\* C24: a one-row file whose row carries a usable name under one of the four
\* listed headers yields one candidate with that name; under an unlisted
\* header it yields none.
C24_NameResolvedFromListedHeaders ==
    \A u \in Uploaders :
        (upload[u].pc # "idle" /\ Len(file) = 1 /\ UsableName(NameTextOf(file[1]))) =>
            IF NameHeaderOf(file[1]) \in ListedNameHeaders
            THEN /\ Len(upload[u].pantries) = 1
                 /\ upload[u].pantries[1].name = Str(NameTextOf(file[1]))
            ELSE upload[u].pantries = <<>>

(***************************************************************************)
(* The fields specification: one ingestion run over one row or item that   *)
(* carries an optional field: an access text in an uploaded row; a text or *)
(* a structured object under a mapped column of a remote item.             *)
(***************************************************************************)
MappingAllFields ==
    MappingComplete @@
        [phone |-> "Phone", email |-> "Mail", website |-> "Site", accessType |-> "Access"]

FieldMappings == {MappingAllFields, [MappingAllFields EXCEPT !.state = ""]}

\* The column of the remote list each optional field is mapped to.
FieldColumns == {"Phone", "Mail", "Site", "Access"}

FieldOfColumn(c) == CHOOSE f \in OptionalTexts : MappingAllFields[f] = c

Drive == <<"d", "r", "i", "v", "e">>
SiteUrl == <<"h", "t", "t", "p", ":", "/", "/", "x", ".", "o", "r", "g">>
SiteLabel == <<"s", "i", "t", "e">>

FieldObjects ==
    {Obj(<<(<<UnwrapKeys[1], Str(SiteUrl)>>), (<<UnwrapKeys[4], Str(SiteLabel)>>)>>),
     Obj(<<(<<UnwrapKeys[4], Str(SiteLabel)>>), (<<UnwrapKeys[1], Str(SiteUrl)>>)>>),
     Obj(<<(<<UnwrapKeys[5], Str(SiteLabel)>>)>>),
     Obj(<<(<<(<<"i", "d">>), Num(7)>>)>>)}

FieldValues == {Str(WalkIn), Str(Drive)} \cup FieldObjects

FieldLists == {<<ItemComplete @@ (c :> v)>> : c \in FieldColumns, v \in FieldValues}

AccessTexts == {<<>>, <<"W", "a", "l", "k", "-", "I", "n">>, Mobile, Drive}

AccessFiles ==
    {<<RowComplete @@ (h :> t)>> :
        h \in {"access_type", "Access Type", "access"}, t \in AccessTexts}

InitFields ==
    /\ pantries = <<>>
    /\ sync = [p \in Syncers |-> SyncIdle]
    /\ upload = [u \in Uploaders |-> UploadIdle]
    /\ lastRead = NoRead
    /\ budget \in {[sync |-> 1, upload |-> 0, admin |-> 0],
                   [sync |-> 0, upload |-> 1, admin |-> 0]}
    /\ settings \in {SettingsRow(m) :
                        m \in IF budget.sync > 0 THEN FieldMappings ELSE {MappingComplete}}
    /\ remote \in IF budget.sync > 0 THEN FieldLists ELSE {<<>>}
    /\ file \in IF budget.upload > 0 THEN AccessFiles ELSE {<<>>}

NextFields == UploadStep \/ SyncStep

SpecFields == InitFields /\ [][NextFields]_vars

\* The value the stated rule stores for a structured object: the first
\* sub-key present, in the order of UnwrapKeys, else the serialization.
StatedUnwrap(value) ==
    LET found == SelectSeq(UnwrapKeys, LAMBDA k : Property(value, k) # Undefined)
    IN  IF found # <<>> THEN StringOf(Property(value, Head(found))) ELSE JsonText(value)

\* C25: when a sync run has gone through a list whose item carries a
\* structured object under a mapped column, the store holds one record for the
\* item and the record's field is the object's preferred sub-key, or its
\* serialization when it has none.
C25_StructuredValueUnwrapped ==
    \A p \in Syncers :
        (sync[p].pc = "done" /\ sync[p].status = 200) =>
            \A c \in FieldColumns \cap DOMAIN remote[1] :
                remote[1][c].t = "obj" =>
                    /\ Len(pantries) = 1
                    /\ pantries[1][FieldOfColumn(c)] = {StatedUnwrap(remote[1][c])}

\* C29: every stored record has an access mode of 'walk-in', 'appointment' or
\* 'mobile', or none.
C29_AccessModeInDomain ==
    \A i \in 1..Len(pantries) : pantries[i].accessType \subseteq {WalkIn, Appointment, Mobile}

(***************************************************************************)
(* The single-run specification: one ingestion run, an upload of a file or *)
(* a sync of a remote list, over an empty store.                           *)
(***************************************************************************)
InitSingle ==
    /\ pantries = <<>>
    /\ sync = [p \in Syncers |-> SyncIdle]
    /\ upload = [u \in Uploaders |-> UploadIdle]
    /\ lastRead = NoRead
    /\ budget \in {[sync |-> 1, upload |-> 0, admin |-> 0],
                   [sync |-> 0, upload |-> 1, admin |-> 0]}
    /\ settings \in {SettingsRow(m) :
                        m \in IF budget.sync > 0 THEN Mappings ELSE {MappingComplete}}
    /\ remote \in IF budget.sync > 0 THEN RemoteLists ELSE {<<>>}
    /\ file \in IF budget.upload > 0 THEN Files ELSE {<<>>}

NextSingle == UploadStep \/ SyncStep

SpecSingle == InitSingle /\ [][NextSingle]_vars

\* The candidates come from distinct inputs, one each, in input order:
\* candidate k is the image of input at[k], with at strictly increasing.
InInputOrder(candidates, inputs, Image(_)) ==
    \E at \in [1..Len(candidates) -> 1..Len(inputs)] :
        /\ \A k \in 1..Len(candidates) : candidates[k] = Image(inputs[at[k]])
        /\ \A j, k \in 1..Len(candidates) : j < k => at[j] < at[k]

\* The ids a loop has created are in the order of its candidates.
CreatedInOrder(log) ==
    \A j, k \in 1..Len(log) : (j < k /\ log[j] # 0 /\ log[k] # 0) => log[j] < log[k]

\* C26: the candidates of a run are images of distinct input rows or items,
\* at most one per input and in input order, and the records of a run are
\* created in the order of its candidates.
C26_OrderAndMultiplicityPreserved ==
    /\ \A u \in Uploaders :
          /\ InInputOrder(upload[u].pantries, file, MappedRow)
          /\ CreatedInOrder(upload[u].log)
    /\ \A p \in Syncers :
          /\ InInputOrder(sync[p].pantries, remote,
                          LAMBDA item : MappedItem(item, settings.columnMapping))
          /\ CreatedInOrder(sync[p].log)

\* An upload of two different rows has returned with both stored, the record
\* of the first row before the record of the second.
C26_Witness ==
    \E u \in Uploaders :
        /\ upload[u].status = 200
        /\ Len(file) = 2
        /\ MappedRow(file[1]) # MappedRow(file[2])
        /\ upload[u].pantries = <<MappedRow(file[1]), MappedRow(file[2])>>
        /\ upload[u].log[1] # 0
        /\ upload[u].log[1] < upload[u].log[2]
        /\ pantries[upload[u].log[1]].city # pantries[upload[u].log[2]].city

(***************************************************************************)
(* The pages specification: one sync run over a remote list of up to one   *)
(* item more than a page holds.                                            *)
(***************************************************************************)
PagedLists == SeqsUpTo({ItemComplete}, PageSize + 1) \ {<<>>}

InitPages ==
    /\ pantries = <<>>
    /\ settings \in {SettingsRow(m) : m \in Mappings}
    /\ sync = [p \in Syncers |-> SyncIdle]
    /\ upload = [u \in Uploaders |-> UploadIdle]
    /\ lastRead = NoRead
    /\ budget = [sync |-> 1, upload |-> 0, admin |-> 0]
    /\ remote \in PagedLists
    /\ file = <<>>

NextPages == SyncStep

SpecPages == InitPages /\ [][NextPages]_vars

\* C27: a sync run that has fetched the list has one candidate for each item
\* of the whole remote list whose mapped name is usable.
C27_EveryItemOfTheListMapped ==
    \A p \in Syncers :
        (sync[p].pc = "loop" \/ sync[p].status = 200) =>
            Len(sync[p].pantries) =
                Cardinality({i \in 1..Len(remote) :
                                KeptBySync(MappedItem(remote[i], settings.columnMapping))})

(***************************************************************************)
(* The concurrent-runs specification: MaxRuns ingestion runs of one kind,  *)
(* interleaved at the store, over inputs of an acceptable and a failing    *)
(* candidate.                                                              *)
(***************************************************************************)
PairFiles == SeqsUpTo({RowComplete, RowBadLatitude}, MaxRows)

PairLists == SeqsUpTo({ItemComplete, ItemNumericTitle}, MaxItems)

InitPair ==
    /\ pantries = <<>>
    /\ sync = [p \in Syncers |-> SyncIdle]
    /\ upload = [u \in Uploaders |-> UploadIdle]
    /\ lastRead = NoRead
    /\ budget \in Budgets({"sync", "upload"})
    /\ settings \in {SettingsRow(m) :
                        m \in IF budget.sync > 0 THEN Mappings ELSE {MappingComplete}}
    /\ remote \in IF budget.sync > 0 THEN PairLists ELSE {<<>>}
    /\ file \in IF budget.upload > 0 THEN PairFiles ELSE {<<>>}

NextPair == UploadStep \/ SyncStep

SpecPair == InitPair /\ [][NextPair]_vars

\* The sum of count[1], ..., count[n].
RECURSIVE SumTo(_, _)
SumTo(count, n) == IF n = 0 THEN 0 ELSE count[n] + SumTo(count, n - 1)

\* The records a run has created: the rows of the ids it logged.
RecordsOf(log) == {pantries[id] : id \in CreatedIds(log) \cap StoredIds}

\* C28: however the runs interleave at the store, every run has one stored
\* record of its own for each candidate it accepted: the store holds as many
\* records as all runs accepted, no two runs share a record, and two runs
\* that imported the same rows have each created a record for each row they
\* accepted.
C28_ConcurrentRunsLoseNothing ==
    /\ Len(pantries) = SumTo([u \in Uploaders |-> upload[u].successCount], MaxRuns)
                       + SumTo([p \in Syncers |-> sync[p].imported], MaxRuns)
    /\ \A u \in Uploaders :
          /\ CreatedIds(upload[u].log) \subseteq StoredIds
          /\ Cardinality(CreatedIds(upload[u].log)) = upload[u].successCount
          /\ upload[u].successCount =
                Cardinality({i \in 1..upload[u].index : UploadAccepts(upload[u].pantries[i])})
    /\ \A p \in Syncers :
          /\ CreatedIds(sync[p].log) \subseteq StoredIds
          /\ Cardinality(CreatedIds(sync[p].log)) = sync[p].imported
          /\ sync[p].imported =
                Cardinality({i \in 1..sync[p].index : SyncAccepts(sync[p].pantries[i])})
    /\ \A u, v \in Uploaders : u # v => CreatedIds(upload[u].log) \cap CreatedIds(upload[v].log) = {}
    /\ \A p, q \in Syncers : p # q => CreatedIds(sync[p].log) \cap CreatedIds(sync[q].log) = {}
    /\ \A u, v \in Uploaders :
          (u # v /\ upload[u].status = 200 /\ upload[v].status = 200) =>
             \A i \in 1..Len(upload[u].log) :
                /\ (upload[u].log[i] # 0) = (upload[v].log[i] # 0)
                /\ upload[u].log[i] # 0 =>
                      /\ upload[u].log[i] # upload[v].log[i]
                      /\ [pantries[upload[u].log[i]] EXCEPT !.id = 0]
                            = [pantries[upload[v].log[i]] EXCEPT !.id = 0]

\* Two uploads of the same two acceptable rows have returned after taking
\* turns at the store: the store holds four records, two for each row.
C28_Witness ==
    \E u, v \in Uploaders :
        /\ upload[u].status = 200 /\ upload[v].status = 200
        /\ upload[u].log = <<1, 3>>
        /\ upload[v].log = <<2, 4>>
        /\ Len(pantries) = 4
        /\ [pantries[1] EXCEPT !.id = 0] = [pantries[2] EXCEPT !.id = 0]
        /\ [pantries[3] EXCEPT !.id = 0] = [pantries[4] EXCEPT !.id = 0]

\* The run has met a run-level failure: its mapping validation did not return
\* valid, or the list fetch threw.
RunLevelFailure(r) == ~r.validation.valid \/ r.syncError # ""

\* C30: the status writes of a sync run are 'syncing' first and then one
\* terminal value, after which the run writes no more: 'success', with
\* lastSync set by the run, only when validation and the list fetch succeeded
\* and the loop has handled every candidate; 'error', with a lastError, only
\* after a run-level failure.
C30_StatusSequence ==
    [][\A p \in Syncers :
          sync'[p].wrote # sync[p].wrote =>
             \/ /\ sync[p].wrote = <<>>
                /\ sync'[p].wrote = <<"syncing">>
                /\ settings'.syncStatus = "syncing"
             \/ /\ sync[p].wrote = <<"syncing">>
                /\ sync'[p].wrote = <<"syncing", "success">>
                /\ sync'[p].pc = "done"
                /\ settings'.syncStatus = "success"
                /\ settings'.lastSync = {p}
                /\ ~RunLevelFailure(sync[p])
                /\ sync[p].index = Len(sync[p].pantries)
                /\ sync[p].imported + Len(sync[p].errors) = Len(sync[p].pantries)
             \/ /\ sync[p].wrote = <<"syncing">>
                /\ sync'[p].wrote = <<"syncing", "error">>
                /\ sync'[p].pc = "done"
                /\ settings'.syncStatus = "error"
                /\ settings'.lastError # {}
                /\ settings'.lastSync = settings.lastSync
                /\ RunLevelFailure(sync[p])
                /\ sync[p].imported = 0]_vars

\* One run has ended in success after a candidate failed, another in error;
\* lastSync is the successful run's and lastError is set.
C30_Witness ==
    \E p, q \in Syncers :
        /\ sync[p].wrote = <<"syncing", "success">>
        /\ sync[p].imported > 0
        /\ sync[q].wrote = <<"syncing", "error">>
        /\ RunLevelFailure(sync[q])
        /\ settings.lastSync = {p}
        /\ settings.lastError # {}

====
